---- MODULE Spec2Model ----
(***************************************************************************)
(* EventHub RSVP admission control: the Event collection, the RSVP        *)
(* controller (joinEvent, leaveEvent) and the event controller            *)
(* (createEvent, updateEvent, deleteEvent), as concurrent request         *)
(* handlers over one MongoDB collection.                                   *)
(*                                                                         *)
(* Every handler is cut at its awaits on the store: one action per store   *)
(* operation together with the handler code that runs up to the next one.  *)
(* joinEvent and leaveEvent run their conditional update inside a          *)
(* transaction: the write is installed in the collection at                *)
(* commitTransaction, and until then the document is write-locked by the   *)
(* transaction.  A second transaction that tries to write the locked       *)
(* document gets a WriteConflict error (the error the catch block of       *)
(* joinEvent tests for); a write outside a transaction waits for the lock. *)
(***************************************************************************)
EXTENDS Integers, Sequences, FiniteSets, TLC

\* Bounds of the model.
MaxReqs == 3   \* number of HTTP requests handled in one behaviour
MaxCap == 2    \* largest capacity an event is created with or edited to
MaxTime == 1   \* the clock runs over 0..MaxTime; event dates are drawn from it
MaxFaults == 1 \* number of store failures other than write conflicts
MaxSeedCap == 3 \* capacity of the event the capacity-edit runs start from

Users == {"u1", "u2", "u3"}
Owners == {"u1"}   \* the users who create events (the others only respond to them)
EventIds == {"e1"}      \* well-formed ObjectId strings
InvalidIds == {"bad"}   \* a route parameter that is not an ObjectId
RequestIds == EventIds \cup InvalidIds
Reqs == 1..MaxReqs
Capacities == 1..MaxCap
Dates == 0..MaxTime

Absent == -1   \* a request-body field that was not sent

VARIABLES
  events,   \* the Event collection: a set of committed documents
  created,  \* the _id values the store has handed out
  reqs,     \* the request handlers, one record per request; found records
            \* whether the event existed at the handler's first store
            \* operation.  An answered request keeps its response, its
            \* parameters and the capacity it sent; its other locals are gone
  now,      \* the server clock (new Date())
  faults,   \* the store failures so far
  auth      \* the client's AuthProvider: its React state, the token in
            \* localStorage, the Authorization header of the api client,
            \* and its requests in flight

vars == <<events, created, reqs, now, faults, auth>>

Range(s) == {s[i] : i \in 1..Len(s)}

NoError == [name |-> "none", code |-> 0]
NoRes == [status |-> 0, message |-> "none", spotsRemaining |-> Absent]
NoData == [capacity |-> Absent, date |-> Absent]

Idle ==
  [op |-> "none", user |-> "none", id |-> "none", pc |-> "idle",
   txn |-> "none", ended |-> FALSE, found |-> FALSE, event |-> {},
   updateData |-> NoData,
   error |-> NoError, res |-> NoRes]

Res(status, message) ==
  [status |-> status, message |-> message, spotsRemaining |-> Absent]

ResSpots(status, message, spots) ==
  [status |-> status, message |-> message, spotsRemaining |-> spots]

\* Event.findById, read outside any session: the committed documents.
\* Mutant: no validation of the route parameter.
IsValidAny(id) == TRUE

\* mongoose.Types.ObjectId.isValid on the route parameter.
IsValid(id) == id \in EventIds

FindById(id) == {d \in events : d._id = id}

\* A transaction holds the write lock of the document it has updated until
\* it commits or aborts.
HoldsWrite(r) == reqs[r].txn = "active" /\ reqs[r].event # {}

Locked(id) == \E r \in Reqs : HoldsWrite(r) /\ reqs[r].id = id

\* Requests are numbered in the order in which they reach the store.
IsNext(r) ==
  /\ reqs[r].pc = "idle"
  /\ \A q \in Reqs : q < r => reqs[q].pc # "idle"

NoUser == "null"

\* The AuthProvider at mount, with the token found in localStorage: ranFor
\* is the token value the token effect last ran for, fetches the tokens of
\* the /auth/me requests in flight, posts the login and register
\* requests in flight; loggedOut records that logout ran and neither login
\* nor register has been called since.
AuthStart(stored) ==
  [user |-> NoUser, token |-> stored, stored |-> stored, header |-> NoUser,
   loading |-> TRUE, ranFor |-> "unset", fetches |-> {}, posts |-> {},
   loggedOut |-> FALSE]

Init ==
  /\ events = {}
  /\ created = {}
  /\ reqs = [r \in Reqs |-> Idle]
  /\ now = 0
  /\ faults = 0
  /\ auth = AuthStart(NoUser)

(***************************************************************************)
(* Store operators                                                         *)
(***************************************************************************)

\* $addToSet: append the value unless the array already holds it.
AddToSet(arr, x) == IF x \in Range(arr) THEN arr ELSE Append(arr, x)

\* $pull: remove every occurrence of the value.
\* Mutant: the last attendee removed, as by $pop, whoever asked.
PullLast(arr, x) == SubSeq(arr, 1, Len(arr) - 1)

Pull(arr, x) == SelectSeq(arr, LAMBDA y : y # x)

\* Mutant: the filter without its capacity clause.
JoinFilterNoCapacity(d, userId) == userId \notin Range(d.attendees)

\* Mutant: the filter without its $ne clause.
JoinFilterNoNe(d, userId) == Len(d.attendees) < d.capacity

\* The filter of joinEvent's findOneAndUpdate (without the _id clause):
\* attendees: {$ne: userId} and $expr: {$lt: [{$size: '$attendees'}, '$capacity']}.
JoinFilter(d, userId) ==
  /\ userId \notin Range(d.attendees)
  /\ Len(d.attendees) < d.capacity

\* Mutant: a filter that matches every document.
LeaveFilterAny(d, userId) == TRUE

\* The filter of leaveEvent's findOneAndUpdate: attendees: userId.
LeaveFilter(d, userId) == userId \in Range(d.attendees)

\* Event.isPast / the diagnostic test new Date(date) < new Date().
IsPast(d) == d.date < now

\* The driver's name for a server error: MongoError up to driver 3.x,
\* MongoServerError from 4.0 on; the repository pins neither.
WriteConflicts ==
  {[name |-> n, code |-> 112] : n \in {"MongoError", "MongoServerError"}}

\* Mutant: $push under the capacity condition alone.
JoinPushIfCapacity(id, userId) ==
  {[d EXCEPT !.attendees = Append(@, userId)] :
     d \in {x \in FindById(id) : Len(x.attendees) < x.capacity}}

\* joinEvent's findOneAndUpdate with new: true: the matching document as
\* updated by $addToSet, or nothing when no document matches.
JoinFindOneAndUpdate(id, userId) ==
  {[d EXCEPT !.attendees = AddToSet(@, userId)] :
     d \in {x \in FindById(id) : JoinFilter(x, userId)}}

\* leaveEvent's findOneAndUpdate with new: true.
LeaveFindOneAndUpdate(id, userId) ==
  {[d EXCEPT !.attendees = Pull(@, userId)] :
     d \in {x \in FindById(id) : LeaveFilter(x, userId)}}

\* An error of the store that is no write conflict (connectivity, a failed
\* commit).
StoreErrors == {[name |-> "MongoNetworkError", code |-> 0]}

(***************************************************************************)
(* eventController.createEvent                                             *)
(***************************************************************************)

\* Event.create: a new document with a fresh _id, no attendees, isActive
\* defaulted to true.  The route's validation admits any ISO date and any
\* integer capacity >= 1.
CreateEvent(userId, id, capacity, date) ==
  /\ id \notin created
  /\ events' = events \cup
       {[_id |-> id, capacity |-> capacity, attendees |-> <<>>,
         creator |-> userId, date |-> date, isActive |-> TRUE]}
  /\ created' = created \cup {id}
  /\ UNCHANGED <<reqs, now, faults, auth>>

(***************************************************************************)
(* rsvpController.joinEvent                                                *)
(***************************************************************************)

\* startSession, startTransaction and the eventId validation: an id that
\* is not an ObjectId gets abortTransaction, endSession and the 400
\* response, before any operation on the collection.
JoinInvalidId(r, userId, id) ==
  /\ IsNext(r)
  /\ ~IsValid(id)
  /\ reqs' = [reqs EXCEPT ![r] =
       [Idle EXCEPT !.op = "join", !.user = userId, !.id = id, !.pc = "done",
          !.txn = "aborted", !.ended = TRUE, !.res = Res(400, "InvalidId")]]
  /\ UNCHANGED <<events, created, now, faults, auth>>

\* startSession, startTransaction and the conditional findOneAndUpdate.
\* No document matches: the handler aborts the transaction, ends the
\* session and goes on to the diagnostic read.  A document matches but is
\* write-locked by another transaction: the store throws WriteConflict.
\* Otherwise the update is written in the transaction and the updated
\* document returned (new: true).
JoinUpdate(r, userId, id) ==
  /\ IsNext(r)
  /\ IsValid(id)
  /\ LET started == [Idle EXCEPT !.op = "join", !.user = userId, !.id = id,
                                      !.found = FindById(id) # {}]
         event == JoinFindOneAndUpdate(id, userId)
     IN
       IF event = {}
       THEN reqs' = [reqs EXCEPT ![r] =
              [started EXCEPT !.pc = "diag", !.txn = "aborted", !.ended = TRUE]]
       ELSE IF Locked(id)
       THEN \E e \in WriteConflicts :
              reqs' = [reqs EXCEPT ![r] =
                [started EXCEPT !.pc = "catch", !.txn = "active", !.error = e]]
       ELSE reqs' = [reqs EXCEPT ![r] =
              [started EXCEPT !.pc = "commit", !.txn = "active", !.event = event]]
  /\ UNCHANGED <<events, created, now, faults, auth>>

\* commitTransaction, endSession and the success response.
\* Mutant: spotsRemaining computed from the stored document, which does
\* not hold the caller yet.
JoinCommitStale(r) ==
  /\ reqs[r].op = "join"
  /\ reqs[r].pc = "commit"
  /\ \E event \in reqs[r].event : \E d \in FindById(event._id) :
       /\ events' = {IF x._id = event._id THEN event ELSE x : x \in events}
       /\ reqs' = [reqs EXCEPT ![r] =
            [@ EXCEPT !.pc = "done", !.txn = "committed", !.ended = TRUE,
               !.event = {},
               !.res = ResSpots(200, "Joined",
                                d.capacity - Len(d.attendees))]]
  /\ UNCHANGED <<created, now, faults, auth>>

JoinCommit(r) ==
  /\ reqs[r].op = "join"
  /\ reqs[r].pc = "commit"
  /\ \E event \in reqs[r].event :
       /\ events' = {IF d._id = event._id THEN event ELSE d : d \in events}
       /\ reqs' = [reqs EXCEPT ![r] =
            [@ EXCEPT !.pc = "done", !.txn = "committed", !.ended = TRUE,
               !.event = {},
               !.res = ResSpots(200, "Joined",
                                event.capacity - Len(event.attendees))]]
  /\ UNCHANGED <<created, now, faults, auth>>

\* Mutant: the capacity test placed before the already-RSVPed test.
JoinDiagnosisCapacityFirst(existingEvent, userId) ==
  IF existingEvent = {} THEN Res(404, "NotFound")
  ELSE LET d == CHOOSE x \in existingEvent : TRUE IN
    IF IsPast(d) THEN Res(400, "EventEnded")
    ELSE IF d.creator = userId THEN Res(400, "CreatorImplicitlyAttending")
    ELSE IF Len(d.attendees) >= d.capacity THEN ResSpots(400, "AtCapacity", 0)
    ELSE IF userId \in Range(d.attendees) THEN Res(400, "AlreadyJoined")
    ELSE Res(400, "TransientConflict")

\* Mutant: the classification without its capacity test.
JoinDiagnosisNoCapacity(existingEvent, userId) ==
  IF existingEvent = {} THEN Res(404, "NotFound")
  ELSE LET d == CHOOSE x \in existingEvent : TRUE IN
    IF IsPast(d) THEN Res(400, "EventEnded")
    ELSE IF d.creator = userId THEN Res(400, "CreatorImplicitlyAttending")
    ELSE IF userId \in Range(d.attendees) THEN Res(400, "AlreadyJoined")
    ELSE Res(400, "TransientConflict")

\* Mutant: the creator test placed before the past-event test.
JoinDiagnosisCreatorFirst(existingEvent, userId) ==
  IF existingEvent = {} THEN Res(404, "NotFound")
  ELSE LET d == CHOOSE x \in existingEvent : TRUE IN
    IF d.creator = userId THEN Res(400, "CreatorImplicitlyAttending")
    ELSE IF IsPast(d) THEN Res(400, "EventEnded")
    ELSE IF userId \in Range(d.attendees) THEN Res(400, "AlreadyJoined")
    ELSE IF Len(d.attendees) >= d.capacity THEN ResSpots(400, "AtCapacity", 0)
    ELSE Res(400, "TransientConflict")

\* The failure classification of joinEvent on its diagnostic document.
JoinDiagnosis(existingEvent, userId) ==
  IF existingEvent = {} THEN Res(404, "NotFound")
  ELSE LET d == CHOOSE x \in existingEvent : TRUE IN
    IF IsPast(d) THEN Res(400, "EventEnded")
    ELSE IF d.creator = userId THEN Res(400, "CreatorImplicitlyAttending")
    ELSE IF userId \in Range(d.attendees) THEN Res(400, "AlreadyJoined")
    ELSE IF Len(d.attendees) >= d.capacity THEN ResSpots(400, "AtCapacity", 0)
    ELSE Res(400, "TransientConflict")

\* Mutant: the diagnostic read used to retry the join with a plain write
\* when it finds a free spot.
JoinDiagnoseRetry(r) ==
  /\ reqs[r].op = "join"
  /\ reqs[r].pc = "diag"
  /\ LET res == JoinDiagnosis(FindById(reqs[r].id), reqs[r].user) IN
       /\ reqs' = [reqs EXCEPT ![r] = [@ EXCEPT !.pc = "done", !.res = res]]
       /\ events' = IF res.message = "TransientConflict"
                    THEN {IF d._id = reqs[r].id
                          THEN [d EXCEPT !.attendees = Append(@, reqs[r].user)]
                          ELSE d : d \in events}
                    ELSE events
  /\ UNCHANGED <<created, now, faults, auth>>

\* The diagnostic read (Event.findById, outside the session) and the
\* response it selects.
JoinDiagnose(r) ==
  /\ reqs[r].op = "join"
  /\ reqs[r].pc = "diag"
  /\ reqs' = [reqs EXCEPT ![r] =
       [@ EXCEPT !.pc = "done",
          !.res = JoinDiagnosis(FindById(reqs[r].id), reqs[r].user)]]
  /\ UNCHANGED <<events, created, now, faults, auth>>

\* Mutant: a catch block that runs the conditional update again after a
\* write conflict.
JoinCatchRetry(r) ==
  /\ reqs[r].op = "join"
  /\ reqs[r].pc = "catch"
  /\ LET event == JoinFindOneAndUpdate(reqs[r].id, reqs[r].user) IN
       reqs' = [reqs EXCEPT ![r] =
         IF reqs[r].error.code = 112 /\ event # {} /\ ~Locked(reqs[r].id)
         THEN [@ EXCEPT !.pc = "commit", !.event = event, !.error = NoError]
         ELSE [@ EXCEPT !.pc = "done", !.txn = "aborted", !.ended = TRUE,
                 !.event = {}, !.error = NoError,
                 !.res = IF reqs[r].error.name = "MongoError" /\ reqs[r].error.code = 112
                         THEN Res(409, "ConcurrentUpdate")
                         ELSE Res(500, "ServerError")]]
  /\ UNCHANGED <<events, created, now, faults, auth>>

\* The catch block: abortTransaction, endSession, then 409 for a
\* MongoError with code 112 and 500 for every other error.
JoinCatch(r) ==
  /\ reqs[r].op = "join"
  /\ reqs[r].pc = "catch"
  /\ reqs' = [reqs EXCEPT ![r] =
       [@ EXCEPT !.pc = "done", !.txn = "aborted", !.ended = TRUE, !.event = {},
          !.error = NoError,
          !.res = IF reqs[r].error.name = "MongoError" /\ reqs[r].error.code = 112
                  THEN Res(409, "ConcurrentUpdate")
                  ELSE Res(500, "ServerError")]]
  /\ UNCHANGED <<events, created, now, faults, auth>>

(***************************************************************************)
(* rsvpController.leaveEvent                                               *)
(***************************************************************************)

\* The eventId validation of leaveEvent, as in joinEvent.
LeaveInvalidId(r, userId, id) ==
  /\ IsNext(r)
  /\ ~IsValid(id)
  /\ reqs' = [reqs EXCEPT ![r] =
       [Idle EXCEPT !.op = "leave", !.user = userId, !.id = id, !.pc = "done",
          !.txn = "aborted", !.ended = TRUE, !.res = Res(400, "InvalidId")]]
  /\ UNCHANGED <<events, created, now, faults, auth>>

LeaveUpdate(r, userId, id) ==
  /\ IsNext(r)
  /\ IsValid(id)
  /\ LET started == [Idle EXCEPT !.op = "leave", !.user = userId, !.id = id,
                                      !.found = FindById(id) # {}]
         event == LeaveFindOneAndUpdate(id, userId)
     IN
       IF event = {}
       THEN reqs' = [reqs EXCEPT ![r] =
              [started EXCEPT !.pc = "diag", !.txn = "aborted", !.ended = TRUE]]
       ELSE IF Locked(id)
       THEN \E e \in WriteConflicts :
              reqs' = [reqs EXCEPT ![r] =
                [started EXCEPT !.pc = "catch", !.txn = "active", !.error = e]]
       ELSE reqs' = [reqs EXCEPT ![r] =
              [started EXCEPT !.pc = "commit", !.txn = "active", !.event = event]]
  /\ UNCHANGED <<events, created, now, faults, auth>>

LeaveCommit(r) ==
  /\ reqs[r].op = "leave"
  /\ reqs[r].pc = "commit"
  /\ \E event \in reqs[r].event :
       /\ events' = {IF d._id = event._id THEN event ELSE d : d \in events}
       /\ reqs' = [reqs EXCEPT ![r] =
            [@ EXCEPT !.pc = "done", !.txn = "committed", !.ended = TRUE,
               !.event = {},
               !.res = ResSpots(200, "Left",
                                event.capacity - Len(event.attendees))]]
  /\ UNCHANGED <<created, now, faults, auth>>

\* Mutant: every leave that was not applied is answered as a server error.
LeaveDiagnosisError(existingEvent) ==
  IF existingEvent = {} THEN Res(404, "NotFound") ELSE Res(500, "ServerError")

\* The failure classification of leaveEvent on its diagnostic document.
LeaveDiagnosis(existingEvent) ==
  IF existingEvent = {} THEN Res(404, "NotFound") ELSE Res(400, "NotJoined")

LeaveDiagnose(r) ==
  /\ reqs[r].op = "leave"
  /\ reqs[r].pc = "diag"
  /\ reqs' = [reqs EXCEPT ![r] =
       [@ EXCEPT !.pc = "done", !.res = LeaveDiagnosis(FindById(reqs[r].id))]]
  /\ UNCHANGED <<events, created, now, faults, auth>>

LeaveCatch(r) ==
  /\ reqs[r].op = "leave"
  /\ reqs[r].pc = "catch"
  /\ reqs' = [reqs EXCEPT ![r] =
       [@ EXCEPT !.pc = "done", !.txn = "aborted", !.ended = TRUE, !.event = {},
          !.error = NoError, !.res = Res(500, "ServerError")]]
  /\ UNCHANGED <<events, created, now, faults, auth>>

(***************************************************************************)
(* eventController.updateEvent, deleteEvent                                *)
(***************************************************************************)

\* The update object built from the request body: a field is set only
\* when it was sent.
\* Mutant: the document replaced by the update object, attendees lost.
ApplyUpdateReplace(d, updateData) ==
  [d EXCEPT
     !.capacity = IF updateData.capacity = Absent THEN @ ELSE updateData.capacity,
     !.date = IF updateData.date = Absent THEN @ ELSE updateData.date,
     !.attendees = <<>>]

ApplyUpdate(d, updateData) ==
  [d EXCEPT
     !.capacity = IF updateData.capacity = Absent THEN @ ELSE updateData.capacity,
     !.date = IF updateData.date = Absent THEN @ ELSE updateData.date]

\* Event.findById, the ownership check and the capacity check against the
\* attendees of the document just read.
UpdateRead(r, userId, id, capacity, date) ==
  /\ IsNext(r)
  /\ LET started == [Idle EXCEPT !.op = "update", !.user = userId, !.id = id,
                                      !.found = FindById(id) # {}]
         event == FindById(id)
     IN
       reqs' = [reqs EXCEPT ![r] =
         IF event = {}
         THEN [started EXCEPT !.pc = "done", !.res = Res(404, "NotFound")]
         ELSE LET d == CHOOSE x \in event : TRUE IN
           IF d.creator # userId
           THEN [started EXCEPT !.pc = "done", !.res = Res(403, "NotAuthorized")]
           ELSE IF capacity # Absent /\ capacity < Len(d.attendees)
           THEN [started EXCEPT !.pc = "done", !.res = Res(400, "CapacityTooLow")]
           ELSE [started EXCEPT !.pc = "write",
                   !.updateData = [capacity |-> capacity, date |-> date]]]
  /\ UNCHANGED <<events, created, now, faults, auth>>

\* Event.findByIdAndUpdate, outside any transaction: it waits while a
\* transaction holds the document.  The success response is sent whatever
\* the store returned.
UpdateWrite(r) ==
  /\ reqs[r].op = "update"
  /\ reqs[r].pc = "write"
  /\ ~Locked(reqs[r].id)
  /\ LET event == {ApplyUpdate(d, reqs[r].updateData) : d \in FindById(reqs[r].id)}
     IN
       /\ events' = {d \in events : d._id # reqs[r].id} \cup event
       /\ reqs' = [reqs EXCEPT ![r] =
            [@ EXCEPT !.pc = "done", !.updateData.date = Absent,
               !.res = Res(200, "Updated")]]
  /\ UNCHANGED <<created, now, faults, auth>>

\* Mutant: deleteEvent without its ownership check.
DeleteReadAnyone(r, userId, id) ==
  /\ IsNext(r)
  /\ LET started == [Idle EXCEPT !.op = "delete", !.user = userId, !.id = id,
                                      !.found = FindById(id) # {}]
         event == FindById(id)
     IN
       reqs' = [reqs EXCEPT ![r] =
         IF event = {}
         THEN [started EXCEPT !.pc = "done", !.res = Res(404, "NotFound")]
         ELSE [started EXCEPT !.pc = "write"]]
  /\ UNCHANGED <<events, created, now, faults, auth>>

\* Event.findById and the ownership check of deleteEvent.
DeleteRead(r, userId, id) ==
  /\ IsNext(r)
  /\ LET started == [Idle EXCEPT !.op = "delete", !.user = userId, !.id = id,
                                      !.found = FindById(id) # {}]
         event == FindById(id)
     IN
       reqs' = [reqs EXCEPT ![r] =
         IF event = {}
         THEN [started EXCEPT !.pc = "done", !.res = Res(404, "NotFound")]
         ELSE IF \E d \in event : d.creator # userId
         THEN [started EXCEPT !.pc = "done", !.res = Res(403, "NotAuthorized")]
         ELSE [started EXCEPT !.pc = "write"]]
  /\ UNCHANGED <<events, created, now, faults, auth>>

\* Mutant: a logical deletion, the document kept with isActive false.
DeleteWriteSoft(r) ==
  /\ reqs[r].op = "delete"
  /\ reqs[r].pc = "write"
  /\ ~Locked(reqs[r].id)
  /\ events' = {IF d._id = reqs[r].id THEN [d EXCEPT !.isActive = FALSE] ELSE d :
                  d \in events}
  /\ reqs' = [reqs EXCEPT ![r] = [@ EXCEPT !.pc = "done", !.res = Res(200, "Deleted")]]
  /\ UNCHANGED <<created, now, faults, auth>>

\* Event.findByIdAndDelete, outside any transaction.
DeleteWrite(r) ==
  /\ reqs[r].op = "delete"
  /\ reqs[r].pc = "write"
  /\ ~Locked(reqs[r].id)
  /\ events' = {d \in events : d._id # reqs[r].id}
  /\ reqs' = [reqs EXCEPT ![r] = [@ EXCEPT !.pc = "done", !.res = Res(200, "Deleted")]]
  /\ UNCHANGED <<created, now, faults, auth>>

\* Time passes.
Tick ==
  /\ now < MaxTime
  /\ now' = now + 1
  /\ UNCHANGED <<events, created, reqs, faults, auth>>

Next ==
  \/ \E u \in Owners, id \in EventIds, c \in Capacities, t \in Dates :
       CreateEvent(u, id, c, t)
  \/ \E r \in Reqs, u \in Users, id \in EventIds : JoinUpdate(r, u, id)
  \/ \E r \in Reqs : JoinCommit(r)
  \/ \E r \in Reqs : JoinDiagnose(r)
  \/ \E r \in Reqs : JoinCatch(r)
  \/ \E r \in Reqs, u \in Users, id \in EventIds : LeaveUpdate(r, u, id)
  \/ \E r \in Reqs : LeaveCommit(r)
  \/ \E r \in Reqs : LeaveDiagnose(r)
  \/ \E r \in Reqs : LeaveCatch(r)
  \/ \E r \in Reqs, u \in Users, id \in EventIds,
        c \in Capacities \cup {Absent}, t \in Dates \cup {Absent} :
       UpdateRead(r, u, id, c, t)
  \/ \E r \in Reqs : UpdateWrite(r)
  \/ \E r \in Reqs, u \in Users, id \in EventIds : DeleteRead(r, u, id)
  \/ \E r \in Reqs : DeleteWrite(r)
  \/ Tick

Spec == Init /\ [][Next]_vars

\* rsvpController.getMyRsvps: the active events that hold the user.
GetMyRsvps(userId) ==
  {d \in events : userId \in Range(d.attendees) /\ d.isActive}

\* helpers.getCapacityStatus of the client, on the attendee count and the
\* capacity of an event: percentage >= 80 is attendees / capacity * 100
\* >= 80, and remaining is the number its label shows.
GetCapacityStatus(attendees, capacity) ==
  LET remaining == capacity - attendees IN
    IF remaining = 0 THEN [status |-> "full", remaining |-> remaining]
    ELSE IF attendees * 100 >= 80 * capacity
      THEN [status |-> "almostFull", remaining |-> remaining]
    ELSE IF attendees * 100 >= 50 * capacity
      THEN [status |-> "filling", remaining |-> remaining]
    ELSE [status |-> "available", remaining |-> remaining]

(***************************************************************************)
(* Store failures                                                          *)
(***************************************************************************)

\* joinEvent's findOneAndUpdate throws: nothing was written, the handler
\* goes to its catch block.
JoinUpdateFails(r, userId, id) ==
  /\ faults < MaxFaults
  /\ IsNext(r)
  /\ \E e \in StoreErrors :
       reqs' = [reqs EXCEPT ![r] =
         [Idle EXCEPT !.op = "join", !.user = userId, !.id = id,
            !.found = FindById(id) # {}, !.pc = "catch", !.txn = "active",
            !.error = e]]
  /\ faults' = faults + 1
  /\ UNCHANGED <<events, created, now, auth>>

\* commitTransaction throws: the handler goes to its catch block with the
\* transaction's write still uncommitted.
JoinCommitFails(r) ==
  /\ reqs[r].op = "join"
  /\ reqs[r].pc = "commit"
  /\ faults < MaxFaults
  /\ \E e \in StoreErrors :
       reqs' = [reqs EXCEPT ![r] = [@ EXCEPT !.pc = "catch", !.error = e]]
  /\ faults' = faults + 1
  /\ UNCHANGED <<events, created, now, auth>>

LeaveUpdateFails(r, userId, id) ==
  /\ faults < MaxFaults
  /\ IsNext(r)
  /\ \E e \in StoreErrors :
       reqs' = [reqs EXCEPT ![r] =
         [Idle EXCEPT !.op = "leave", !.user = userId, !.id = id,
            !.found = FindById(id) # {}, !.pc = "catch", !.txn = "active",
            !.error = e]]
  /\ faults' = faults + 1
  /\ UNCHANGED <<events, created, now, auth>>

LeaveCommitFails(r) ==
  /\ reqs[r].op = "leave"
  /\ reqs[r].pc = "commit"
  /\ faults < MaxFaults
  /\ \E e \in StoreErrors :
       reqs' = [reqs EXCEPT ![r] = [@ EXCEPT !.pc = "catch", !.error = e]]
  /\ faults' = faults + 1
  /\ UNCHANGED <<events, created, now, auth>>

NextFaults ==
  \/ Next
  \/ \E r \in Reqs, u \in Users, id \in EventIds : JoinUpdateFails(r, u, id)
  \/ \E r \in Reqs : JoinCommitFails(r)
  \/ \E r \in Reqs, u \in Users, id \in EventIds : LeaveUpdateFails(r, u, id)
  \/ \E r \in Reqs : LeaveCommitFails(r)

\* The handlers over a store that may fail.
SpecFaults == Init /\ [][NextFaults]_vars

(***************************************************************************)
(* Failures of the diagnostic read and of the abort in the catch block     *)
(***************************************************************************)

\* joinEvent's diagnostic Event.findById throws, after abortTransaction
\* and endSession have run: the handler goes to its catch block.
JoinDiagnoseFails(r) ==
  /\ reqs[r].op = "join"
  /\ reqs[r].pc = "diag"
  /\ faults < MaxFaults
  /\ \E e \in StoreErrors :
       reqs' = [reqs EXCEPT ![r] = [@ EXCEPT !.pc = "catch", !.error = e]]
  /\ faults' = faults + 1
  /\ UNCHANGED <<events, created, now, auth>>

LeaveDiagnoseFails(r) ==
  /\ reqs[r].op = "leave"
  /\ reqs[r].pc = "diag"
  /\ faults < MaxFaults
  /\ \E e \in StoreErrors :
       reqs' = [reqs EXCEPT ![r] = [@ EXCEPT !.pc = "catch", !.error = e]]
  /\ faults' = faults + 1
  /\ UNCHANGED <<events, created, now, auth>>

\* The abortTransaction of the catch block throws, because the store fails
\* or because the session has already been ended: the exception leaves
\* the handler from inside its catch block, before endSession and before
\* any response.  The store drops the transaction's uncommitted write.
JoinCatchThrows(r) ==
  /\ reqs[r].op = "join"
  /\ reqs[r].pc = "catch"
  /\ reqs[r].ended \/ faults < MaxFaults
  /\ reqs' = [reqs EXCEPT ![r] =
       [@ EXCEPT !.pc = "rejected", !.event = {}, !.error = NoError]]
  /\ faults' = IF reqs[r].ended THEN faults ELSE faults + 1
  /\ UNCHANGED <<events, created, now, auth>>

LeaveCatchThrows(r) ==
  /\ reqs[r].op = "leave"
  /\ reqs[r].pc = "catch"
  /\ reqs[r].ended \/ faults < MaxFaults
  /\ reqs' = [reqs EXCEPT ![r] =
       [@ EXCEPT !.pc = "rejected", !.event = {}, !.error = NoError]]
  /\ faults' = IF reqs[r].ended THEN faults ELSE faults + 1
  /\ UNCHANGED <<events, created, now, auth>>

\* joinEvent and leaveEvent on a created event, over a store that may fail
\* at any of their awaits.
NextLifecycle ==
  \/ \E u \in Owners, id \in EventIds, c \in Capacities, t \in Dates :
       CreateEvent(u, id, c, t)
  \/ \E r \in Reqs, u \in Users, id \in EventIds : JoinUpdate(r, u, id)
  \/ \E r \in Reqs : JoinCommit(r)
  \/ \E r \in Reqs : JoinDiagnose(r)
  \/ \E r \in Reqs : JoinCatch(r)
  \/ \E r \in Reqs, u \in Users, id \in EventIds : LeaveUpdate(r, u, id)
  \/ \E r \in Reqs : LeaveCommit(r)
  \/ \E r \in Reqs : LeaveDiagnose(r)
  \/ \E r \in Reqs : LeaveCatch(r)
  \/ \E r \in Reqs, u \in Users, id \in EventIds : JoinUpdateFails(r, u, id)
  \/ \E r \in Reqs : JoinCommitFails(r)
  \/ \E r \in Reqs, u \in Users, id \in EventIds : LeaveUpdateFails(r, u, id)
  \/ \E r \in Reqs : LeaveCommitFails(r)
  \/ \E r \in Reqs : JoinDiagnoseFails(r)
  \/ \E r \in Reqs : LeaveDiagnoseFails(r)
  \/ \E r \in Reqs : JoinCatchThrows(r)
  \/ \E r \in Reqs : LeaveCatchThrows(r)

SpecLifecycle == Init /\ [][NextLifecycle]_vars

(***************************************************************************)
(* Malformed route parameters                                              *)
(***************************************************************************)

NextIds ==
  \/ \E u \in Owners, id \in EventIds, c \in Capacities, t \in Dates :
       CreateEvent(u, id, c, t)
  \/ \E r \in Reqs, u \in Users, id \in RequestIds : JoinInvalidId(r, u, id)
  \/ \E r \in Reqs, u \in Users, id \in RequestIds : JoinUpdate(r, u, id)
  \/ \E r \in Reqs : JoinCommit(r)
  \/ \E r \in Reqs : JoinDiagnose(r)
  \/ \E r \in Reqs : JoinCatch(r)
  \/ \E r \in Reqs, u \in Users, id \in RequestIds : LeaveInvalidId(r, u, id)
  \/ \E r \in Reqs, u \in Users, id \in RequestIds : LeaveUpdate(r, u, id)
  \/ \E r \in Reqs : LeaveCommit(r)
  \/ \E r \in Reqs : LeaveDiagnose(r)
  \/ \E r \in Reqs : LeaveCatch(r)
  \/ \E r \in Reqs, u \in Owners, id \in EventIds : DeleteRead(r, u, id)
  \/ \E r \in Reqs : DeleteWrite(r)

\* joinEvent and leaveEvent with route parameters that need not be
\* ObjectIds, on an event its owner creates and deletes.
SpecIds == Init /\ [][NextIds]_vars

(***************************************************************************)
(* Capacity edits against responses, over runs of any length               *)
(***************************************************************************)

\* One event has been created, with capacity MaxSeedCap and nobody in it.
InitEdits ==
  /\ events = {[_id |-> id, capacity |-> MaxSeedCap, attendees |-> <<>>,
                creator |-> u, date |-> 0, isActive |-> TRUE] :
                  id \in EventIds, u \in Owners}
  /\ created = EventIds
  /\ reqs = [r \in Reqs |-> Idle]
  /\ now = 0
  /\ faults = 0
  /\ auth = AuthStart(NoUser)

\* Every request received so far has been answered: the server keeps
\* nothing of them, and later requests are handled like the first ones.
Forget ==
  /\ \E r \in Reqs : reqs[r].pc = "done"
  /\ \A r \in Reqs : reqs[r].pc \in {"idle", "done"}
  /\ reqs' = [r \in Reqs |-> Idle]
  /\ UNCHANGED <<events, created, now, faults, auth>>

\* Joins, leaves and the owner's capacity edits of the event.
NextEdits ==
  \/ \E r \in Reqs, u \in Users, id \in EventIds : JoinUpdate(r, u, id)
  \/ \E r \in Reqs : JoinCommit(r)
  \/ \E r \in Reqs : JoinDiagnose(r)
  \/ \E r \in Reqs : JoinCatch(r)
  \/ \E r \in Reqs, u \in Users, id \in EventIds : LeaveUpdate(r, u, id)
  \/ \E r \in Reqs : LeaveCommit(r)
  \/ \E r \in Reqs : LeaveDiagnose(r)
  \/ \E r \in Reqs : LeaveCatch(r)
  \/ \E r \in Reqs, u \in Owners, id \in EventIds, c \in Capacities :
       UpdateRead(r, u, id, c, Absent)
  \/ \E r \in Reqs : UpdateWrite(r)
  \/ Forget

SpecEdits == InitEdits /\ [][NextEdits]_vars

(***************************************************************************)
(* The client's AuthProvider                                               *)
(***************************************************************************)

\* The page is loaded with or without a token in localStorage.
InitAuth ==
  /\ events = {}
  /\ created = {}
  /\ reqs = [r \in Reqs |-> Idle]
  /\ now = 0
  /\ faults = 0
  /\ auth \in {AuthStart(stored) : stored \in Users \cup {NoUser}}

\* logout(): the token removed from localStorage and from the api
\* headers, token and user set to null.
LoggedOut(a) ==
  [a EXCEPT !.stored = NoUser, !.header = NoUser, !.token = NoUser,
            !.user = NoUser, !.loggedOut = TRUE]

\* The token effect, run after a render in which token changed: with a
\* token it sets the Authorization header and sends GET /auth/me, without
\* one it only clears loading.
RunEffect ==
  /\ auth.ranFor # auth.token
  /\ auth' = IF auth.token # NoUser
             THEN [auth EXCEPT !.ranFor = auth.token, !.header = auth.token,
                               !.fetches = @ \cup {auth.token}]
             ELSE [auth EXCEPT !.ranFor = auth.token, !.loading = FALSE]
  /\ UNCHANGED <<events, created, reqs, now, faults>>

\* GET /auth/me resolves with the user of the token it was sent with:
\* setUser(response.data.user), setLoading(false).
FetchResolves(t) ==
  /\ t \in auth.fetches
  /\ auth' = [auth EXCEPT !.fetches = @ \ {t}, !.user = t, !.loading = FALSE]
  /\ UNCHANGED <<events, created, reqs, now, faults>>

\* GET /auth/me fails: the catch branch calls logout(), then
\* setLoading(false).
FetchFails(t) ==
  /\ t \in auth.fetches
  /\ auth' = [LoggedOut(auth) EXCEPT !.fetches = @ \ {t}, !.loading = FALSE]
  /\ UNCHANGED <<events, created, reqs, now, faults>>

\* login(email, password) is called: POST /auth/login is sent.
LoginCall(u) ==
  /\ [kind |-> "login", user |-> u] \notin auth.posts
  /\ auth' = [auth EXCEPT !.posts = @ \cup {[kind |-> "login", user |-> u]},
                          !.loggedOut = FALSE]
  /\ UNCHANGED <<events, created, reqs, now, faults>>

\* register(name, email, password) is called: POST /auth/register is sent.
RegisterCall(u) ==
  /\ [kind |-> "register", user |-> u] \notin auth.posts
  /\ auth' = [auth EXCEPT !.posts = @ \cup {[kind |-> "register", user |-> u]},
                          !.loggedOut = FALSE]
  /\ UNCHANGED <<events, created, reqs, now, faults>>

\* The POST resolves: the new token is stored, set as header and as token
\* state, and the user is set.
PostResolves(p) ==
  /\ p \in auth.posts
  /\ auth' = [auth EXCEPT !.posts = @ \ {p}, !.stored = p.user,
                          !.header = p.user, !.token = p.user, !.user = p.user]
  /\ UNCHANGED <<events, created, reqs, now, faults>>

\* The POST fails: login or register throws to its caller.
PostFails(p) ==
  /\ p \in auth.posts
  /\ auth' = [auth EXCEPT !.posts = @ \ {p}]
  /\ UNCHANGED <<events, created, reqs, now, faults>>

\* logout() is called.
Logout ==
  /\ auth' = LoggedOut(auth)
  /\ UNCHANGED <<events, created, reqs, now, faults>>

\* The login and register requests the client can send.
Posts == {[kind |-> k, user |-> u] : k \in {"login", "register"}, u \in Users}

NextAuth ==
  \/ RunEffect
  \/ \E t \in Users : FetchResolves(t)
  \/ \E t \in Users : FetchFails(t)
  \/ \E u \in Users : LoginCall(u)
  \/ \E u \in Users : RegisterCall(u)
  \/ \E p \in Posts : PostResolves(p)
  \/ \E p \in Posts : PostFails(p)
  \/ Logout

SpecAuth == InitAuth /\ [][NextAuth]_vars

(***************************************************************************)
(* Properties                                                              *)
(***************************************************************************)

Joins == {r \in Reqs : reqs[r].op = "join"}
Done(r) == reqs[r].pc = "done"
Min(a, b) == IF a < b THEN a ELSE b

\* Number of occurrences of x in the array.
Count(arr, x) == Cardinality({i \in 1..Len(arr) : arr[i] = x})

\* An updateEvent that carried a capacity has written the event.
CapacityEdited(id) ==
  \E r \in Reqs :
    /\ reqs[r].op = "update" /\ reqs[r].id = id
    /\ reqs[r].res.status = 200
    /\ reqs[r].updateData.capacity # Absent

\* The step taken is a step of request r.
StepOf(r) == reqs'[r] # reqs[r]

\* C1 -- No overbooking: an event whose capacity has not been edited never
\* stores more attendees than its capacity, whatever joins and leaves ran
\* and however they interleaved.
C1_NoOverbooking ==
  \A d \in events : ~CapacityEdited(d._id) => Len(d.attendees) <= d.capacity

\* More join requests than the capacity were completed on an unedited
\* event, which is full.
C1_Witness ==
  \E d \in events :
    /\ ~CapacityEdited(d._id)
    /\ Len(d.attendees) = d.capacity
    /\ Cardinality({r \in Joins : Done(r) /\ reqs[r].id = d._id /\ reqs[r].found})
         > d.capacity

\* The capacity-exact scenario: requests a and b are the only requests, two
\* joins by distinct users, neither the creator, on an event of capacity 1
\* that existed when each arrived and is not past; both have been answered.
CapacityExactScenario(a, b) ==
  /\ a # b
  /\ \A r \in Reqs : r \in {a, b} <=> reqs[r].op # "none"
  /\ reqs[a].op = "join" /\ reqs[b].op = "join"
  /\ reqs[a].id = reqs[b].id
  /\ reqs[a].user # reqs[b].user
  /\ reqs[a].found /\ reqs[b].found
  /\ Done(a) /\ Done(b)
  /\ \E d \in FindById(reqs[a].id) :
       /\ d.capacity = 1
       /\ ~IsPast(d)
       /\ d.creator \notin {reqs[a].user, reqs[b].user}

\* C2 -- Capacity-exact scenario: each of the two concurrent joins on an
\* empty event of capacity 1 is answered Joined or AtCapacity and nothing
\* else, and exactly one of them is answered Joined.
C2_CapacityExact ==
  \A a, b \in Reqs :
    CapacityExactScenario(a, b) =>
      /\ reqs[a].res.message \in {"Joined", "AtCapacity"}
      /\ reqs[b].res.message \in {"Joined", "AtCapacity"}
      /\ (reqs[a].res.message = "Joined") # (reqs[b].res.message = "Joined")

\* Every request so far is a join of event id, each by a different user,
\* each arrived after the event was created, and all have been answered.
OnlyJoinsCompleted(id) ==
  /\ Joins # {}
  /\ \A r \in Reqs : reqs[r].op \in {"none", "join"}
  /\ \A r \in Joins : reqs[r].id = id /\ reqs[r].found /\ Done(r)
  /\ \A r, q \in Joins : r # q => reqs[r].user # reqs[q].user

\* C3 -- N distinct users each issue one join on an empty event of
\* capacity C and nobody leaves: once all N requests have completed,
\* exactly min(N, C) distinct users are members.
C3_ExactlyMinJoined ==
  \A d \in events :
    OnlyJoinsCompleted(d._id) =>
      Cardinality(Range(d.attendees)) = Min(Cardinality(Joins), d.capacity)

\* C4 -- No duplicate membership: no user appears twice in the attendees
\* of a stored event, nor in the document a transaction is about to commit.
C4_NoDuplicateMembership ==
  /\ \A d \in events : \A u \in Users : Count(d.attendees, u) <= 1
  /\ \A r \in Reqs : \A d \in reqs[r].event : \A u \in Users :
       Count(d.attendees, u) <= 1

\* The same user has had two joins of the same event answered, one of them
\* with Joined, and is a member.
C4_Witness ==
  \E r, q \in Joins :
    /\ r # q /\ Done(r) /\ Done(q)
    /\ reqs[r].user = reqs[q].user /\ reqs[r].id = reqs[q].id
    /\ reqs[r].res.message = "Joined"
    /\ \E d \in FindById(reqs[r].id) : reqs[r].user \in Range(d.attendees)

\* C5 -- The capacity of a stored event is never below its number of
\* attendees, with owner edits of the capacity interleaved with joins and
\* leaves.
C5_CapacityNotBelowMembers ==
  \A d \in events : d.capacity >= Len(d.attendees)

\* C6 -- No join request gets its user added to an event that is past at
\* the time of the request, or that is not active: the conditional update
\* of a join never matches such a document.
C6_NoJoinOfPastOrInactive ==
  [][\A r \in Reqs :
       (reqs[r].pc = "idle" /\ reqs'[r].op = "join" /\ reqs'[r].pc = "commit")
         => \A d \in FindById(reqs'[r].id) : ~IsPast(d) /\ d.isActive]_vars

\* C7 -- A join is answered Joined only by the step that installs its
\* conditional update, and at that instant the event exists, the caller is
\* not among its attendees, its attendees are fewer than its capacity, and
\* the step adds the caller.
C7_JoinedOnlyIfAdmissible ==
  [][\A r \in Reqs :
       (reqs'[r].res.message = "Joined" /\ reqs[r].res.message # "Joined")
         => \E d \in FindById(reqs[r].id) :
              /\ reqs[r].user \notin Range(d.attendees)
              /\ Len(d.attendees) < d.capacity
              /\ events' = (events \ {d}) \cup
                   {[d EXCEPT !.attendees = Append(@, reqs[r].user)]}]_vars

\* A join was answered Joined, another AtCapacity.
C7_Witness ==
  \E r, q \in Joins :
    reqs[r].res.message = "Joined" /\ reqs[q].res.message = "AtCapacity"

C9_LeftOnlyIfMember ==
  [][\A r \in Reqs :
       (reqs'[r].res.message = "Left" /\ reqs[r].res.message # "Left")
         => \E d \in FindById(reqs[r].id) :
              /\ reqs[r].user \in Range(d.attendees)
              /\ events' = (events \ {d}) \cup
                   {[d EXCEPT !.attendees =
                       SelectSeq(@, LAMBDA u : u # reqs[r].user)]}]_vars

\* A leave was answered Left on an event that keeps another member.
C9_Witness ==
  \E r \in Reqs :
    /\ reqs[r].op = "leave" /\ reqs[r].res.message = "Left"
    /\ \E d \in FindById(reqs[r].id) : Len(d.attendees) > 0

\* C10 -- Join idempotence: a join that arrives when its user is already a
\* member is not applied and changes nothing, and with the user still a
\* member at its diagnostic read it is answered with a precondition
\* failure (400), never with a success or a server error.
C10_JoinIdempotent ==
  [][\A r \in Reqs :
       /\ ( /\ reqs[r].pc = "idle" /\ reqs'[r].op = "join"
            /\ \E d \in FindById(reqs'[r].id) : reqs'[r].user \in Range(d.attendees) )
            => reqs'[r].pc = "diag" /\ events' = events
       /\ ( /\ reqs[r].op = "join" /\ reqs[r].pc = "diag" /\ StepOf(r)
            /\ \E d \in FindById(reqs[r].id) : reqs[r].user \in Range(d.attendees) )
            => /\ reqs'[r].res.status = 400
               /\ reqs'[r].res.message \in
                    {"AlreadyJoined", "EventEnded", "CreatorImplicitlyAttending"}
               /\ events' = events]_vars

\* A user's join was answered Joined and the same user's next join
\* AlreadyJoined.
C10_Witness ==
  \E r, q \in Joins :
    /\ r < q
    /\ reqs[r].user = reqs[q].user /\ reqs[r].id = reqs[q].id
    /\ reqs[r].res.message = "Joined"
    /\ reqs[q].res.message = "AlreadyJoined"

\* C11 -- Idempotent leave: a leave that arrives after the same user's
\* leave of the same event was answered Left, with the user no longer a
\* member, is not applied and changes nothing; with the event still stored
\* and the user still not a member at its diagnostic read it is answered
\* 400 NotJoined, and the attendees are the same after it as before it.
C11_LeaveIdempotent ==
  [][\A r \in Reqs :
       /\ ( /\ reqs[r].pc = "idle" /\ reqs'[r].op = "leave"
            /\ \E q \in Reqs :
                 /\ reqs[q].op = "leave" /\ reqs[q].res.message = "Left"
                 /\ reqs[q].user = reqs'[r].user /\ reqs[q].id = reqs'[r].id
            /\ \E d \in FindById(reqs'[r].id) : reqs'[r].user \notin Range(d.attendees) )
            => reqs'[r].pc = "diag" /\ events' = events
       /\ ( /\ reqs[r].op = "leave" /\ reqs[r].pc = "diag" /\ StepOf(r)
            /\ \E d \in FindById(reqs[r].id) : reqs[r].user \notin Range(d.attendees) )
            => /\ reqs'[r].res = Res(400, "NotJoined")
               /\ events' = events]_vars

\* A user joined, left with the answer Left, and left again with the
\* answer NotJoined; the event is stored.
C11_Witness ==
  \E p, r, q \in Reqs :
    /\ p < r /\ r < q
    /\ reqs[p].op = "join" /\ reqs[r].op = "leave" /\ reqs[q].op = "leave"
    /\ reqs[p].user = reqs[r].user /\ reqs[r].user = reqs[q].user
    /\ reqs[p].id = reqs[r].id /\ reqs[r].id = reqs[q].id
    /\ reqs[p].res.message = "Joined"
    /\ reqs[r].res.message = "Left"
    /\ reqs[q].res.message = "NotJoined"
    /\ FindById(reqs[q].id) # {}

\* No request other than r is between two of its store operations.
Quiet(r) == \A q \in Reqs \ {r} : reqs[q].pc \in {"idle", "done"}

\* C12 -- Round trip: with no other request in flight, a join by a
\* non-member of an event with a free spot and a leave by a member are both
\* applied: the conditional update matches and adds (removes) exactly the
\* caller, and the request then commits that document and answers 200, the
\* caller being in the attendees exactly once after a join and every other
\* user as often as before.
C12_RoundTrip ==
  [][\A r \in Reqs :
       /\ ( /\ reqs[r].pc = "idle" /\ reqs'[r].op = "join" /\ Quiet(r) )
            => \A d \in FindById(reqs'[r].id) :
                 ( /\ reqs'[r].user \notin Range(d.attendees)
                   /\ Len(d.attendees) < d.capacity )
                   => /\ reqs'[r].pc = "commit"
                      /\ reqs'[r].event =
                           {[d EXCEPT !.attendees = Append(@, reqs'[r].user)]}
       /\ ( /\ reqs[r].pc = "idle" /\ reqs'[r].op = "leave" /\ Quiet(r) )
            => \A d \in FindById(reqs'[r].id) :
                 reqs'[r].user \in Range(d.attendees)
                   => /\ reqs'[r].pc = "commit"
                      /\ reqs'[r].event =
                           {[d EXCEPT !.attendees =
                               SelectSeq(@, LAMBDA u : u # reqs'[r].user)]}
       /\ ( /\ reqs[r].op \in {"join", "leave"} /\ reqs[r].pc = "commit"
            /\ StepOf(r) )
            => /\ reqs'[r].res.status = 200
               /\ reqs'[r].res.message = IF reqs[r].op = "join" THEN "Joined" ELSE "Left"
               /\ events' = (events \ FindById(reqs[r].id)) \cup reqs[r].event
               /\ \A d \in FindById(reqs[r].id) : \A e \in reqs[r].event :
                    /\ Count(e.attendees, reqs[r].user) =
                         (IF reqs[r].op = "join" THEN 1 ELSE 0)
                    /\ \A v \in Users \ {reqs[r].user} :
                         Count(e.attendees, v) = Count(d.attendees, v)]_vars

\* One user's join, leave and second join of an event were answered
\* Joined, Left and Joined, and the user is in the attendees exactly once.
C12_Witness ==
  \E p, r, q \in Reqs :
    /\ p < r /\ r < q
    /\ reqs[p].op = "join" /\ reqs[r].op = "leave" /\ reqs[q].op = "join"
    /\ reqs[p].user = reqs[r].user /\ reqs[r].user = reqs[q].user
    /\ reqs[p].id = reqs[r].id /\ reqs[r].id = reqs[q].id
    /\ reqs[p].res.message = "Joined"
    /\ reqs[r].res.message = "Left"
    /\ reqs[q].res.message = "Joined"
    /\ \E d \in FindById(reqs[q].id) : Count(d.attendees, reqs[q].user) = 1

\* C13 -- Spots-remaining consistency: the step that answers a join or a
\* leave with success stores the document its own conditional update
\* produced (the stored attendees with exactly the caller added or
\* removed), and the spotsRemaining it reports is the capacity of that
\* document minus the number of its attendees.
C13_SpotsRemainingOfSnapshot ==
  [][\A r \in Reqs :
       ( /\ reqs[r].op \in {"join", "leave"}
         /\ reqs[r].res = NoRes /\ reqs'[r].res.status = 200 )
         => \E d \in FindById(reqs[r].id) : \E e \in reqs[r].event :
              /\ e.attendees = IF reqs[r].op = "join"
                               THEN Append(d.attendees, reqs[r].user)
                               ELSE SelectSeq(d.attendees, LAMBDA u : u # reqs[r].user)
              /\ e.capacity = d.capacity
              /\ e \in events'
              /\ reqs'[r].res.spotsRemaining = e.capacity - Len(e.attendees)]_vars

\* A join was answered with success and no spot remaining, and a leave
\* with success and a spot remaining.
C13_Witness ==
  \E r, q \in Reqs :
    /\ reqs[r].op = "join" /\ reqs[r].res.status = 200
    /\ reqs[r].res.spotsRemaining = 0
    /\ reqs[q].op = "leave" /\ reqs[q].res.status = 200
    /\ reqs[q].res.spotsRemaining > 0

\* C14 -- The spotsRemaining of every successful join and of every
\* successful leave is non-negative, with joins, leaves and the owner's
\* capacity edits of the event interleaved in any way.
C14_SpotsRemainingNonNegative ==
  \A r \in Reqs :
    (reqs[r].op \in {"join", "leave"} /\ reqs[r].res.status = 200)
      => reqs[r].res.spotsRemaining >= 0

\* C15 -- Join failure classification: the step that answers a join whose
\* conditional update was not applied reads the event once and answers
\* with the first cause that holds of the document read, in the order
\* absent (404 NotFound), past (EventEnded), caller is the creator
\* (CreatorImplicitlyAttending), caller in the attendees (AlreadyJoined),
\* attendees not fewer than capacity (AtCapacity), and TransientConflict
\* when none holds.
C15_JoinFailureClassification ==
  [][\A r \in Reqs :
       (reqs[r].op = "join" /\ reqs[r].pc = "diag" /\ StepOf(r))
         => LET u == reqs[r].user
                res == reqs'[r].res
            IN
              /\ reqs'[r].pc = "done"
              /\ FindById(reqs[r].id) = {} => res = Res(404, "NotFound")
              /\ \A d \in FindById(reqs[r].id) :
                   LET past == d.date < now
                       creator == d.creator = u
                       member == \E i \in 1..Len(d.attendees) : d.attendees[i] = u
                       full == Len(d.attendees) >= d.capacity
                   IN
                     /\ res.status = 400
                     /\ past => res.message = "EventEnded"
                     /\ (~past /\ creator)
                          => res.message = "CreatorImplicitlyAttending"
                     /\ (~past /\ ~creator /\ member)
                          => res.message = "AlreadyJoined"
                     /\ (~past /\ ~creator /\ ~member /\ full)
                          => res.message = "AtCapacity"
                     /\ (~past /\ ~creator /\ ~member /\ ~full)
                          => res.message = "TransientConflict"]_vars

\* On a full event one join was answered AlreadyJoined and another
\* AtCapacity; or a join of a past event by its creator was answered
\* EventEnded.
C15_Witness ==
  \/ \E r, q \in Joins : \E d \in FindById(reqs[r].id) :
       /\ reqs[r].res.message = "AlreadyJoined"
       /\ reqs[q].res.message = "AtCapacity"
       /\ Len(d.attendees) >= d.capacity
  \/ \E r \in Joins : \E d \in FindById(reqs[r].id) :
       /\ reqs[r].res.message = "EventEnded"
       /\ reqs[r].user = d.creator

\* Request r is a join that was not applied for want of a free spot: it
\* found the event, stored since and never past, whose capacity and date
\* nobody edited; its user made no other request, so was never a member,
\* and is not the creator; and it was answered from its diagnostic read.
RefusedForCapacity(r) ==
  /\ reqs[r].op = "join" /\ reqs[r].found /\ Done(r)
  /\ reqs[r].res.status \in {400, 404}
  /\ \A q \in Reqs : reqs[q].op \in {"none", "join", "leave"}
  /\ \A q \in Reqs \ {r} : reqs[q].user # reqs[r].user
  /\ \E d \in FindById(reqs[r].id) : ~IsPast(d) /\ d.creator # reqs[r].user

\* C16 -- Capacity exhaustion is reported explicitly: a join by a
\* non-member who is not the creator, on an existing future event, that was
\* not applied because the event had no free spot when the conditional
\* update was evaluated, is answered AtCapacity with spotsRemaining 0.
C16_CapacityExhaustionExplicit ==
  \A r \in Reqs :
    RefusedForCapacity(r) => reqs[r].res = ResSpots(400, "AtCapacity", 0)

\* C17 -- Leave failure classification: the step that answers a leave
\* whose conditional update was not applied answers NotFound when the
\* event is not stored and NotJoined otherwise, and it answers NotJoined
\* only when the caller is not among the attendees it reads.
C17_LeaveFailureClassification ==
  [][\A r \in Reqs :
       (reqs[r].op = "leave" /\ reqs[r].pc = "diag" /\ StepOf(r))
         => /\ FindById(reqs[r].id) = {} => reqs'[r].res = Res(404, "NotFound")
            /\ FindById(reqs[r].id) # {} => reqs'[r].res = Res(400, "NotJoined")
            /\ reqs'[r].res.message = "NotJoined"
                 => \A d \in FindById(reqs[r].id) :
                      reqs[r].user \notin Range(d.attendees)]_vars

\* C18 -- No retry and no write after the diagnosis: a join or leave
\* evaluates its conditional update in its first step only, the one write
\* it may make is the commit of the document that update produced, and its
\* diagnostic read and its catch block answer the request and write
\* nothing.
C18_NoRetryNoWriteAfterDiagnosis ==
  [][\A r \in Reqs :
       (reqs[r].op \in {"join", "leave"} /\ StepOf(r))
         => /\ reqs'[r].event \in {reqs[r].event, {}}
            /\ reqs[r].pc \in {"diag", "catch"}
                 => reqs'[r].pc = "done" /\ events' = events
            /\ events' # events
                 => /\ reqs[r].pc = "commit" /\ reqs'[r].pc = "done"
                    /\ events' = (events \ FindById(reqs[r].id)) \cup reqs[r].event]_vars

\* A join was answered TransientConflict: its diagnostic read found a free
\* spot for a non-member, who is still not a member; and another request
\* was answered from its catch block.
C18_Witness ==
  \E r \in Joins : \E q \in Reqs :
    /\ reqs[r].res.message = "TransientConflict"
    /\ \E d \in FindById(reqs[r].id) :
         reqs[r].user \notin Range(d.attendees) /\ Len(d.attendees) < d.capacity
    /\ reqs[q].res.status \in {409, 500}

\* C19 -- Store failures are surfaced: a join or leave whose conditional
\* update or commit raised an error (a write conflict or a store failure)
\* is answered 409 or 500 by its catch block, 500 for a leave, never with
\* success; neither the failing step nor the catch block changes the
\* collection, and the uncommitted write is dropped.  (A catch block
\* entered with the session already ended belongs to a failed diagnostic
\* read, not to a failed update or commit.)
C19_StoreFailuresSurfaced ==
  [][\A r \in Reqs :
       /\ (StepOf(r) /\ reqs'[r].pc = "catch")
            => /\ reqs'[r].op \in {"join", "leave"}
               /\ reqs'[r].error # NoError
               /\ reqs'[r].res = NoRes
               /\ events' = events
       /\ (StepOf(r) /\ reqs[r].pc = "catch" /\ ~reqs[r].ended)
            => /\ reqs'[r].pc = "done"
               /\ reqs'[r].res.status \in
                    (IF reqs[r].op = "join" THEN {409, 500} ELSE {500})
               /\ reqs'[r].event = {}
               /\ reqs'[r].txn = "aborted"
               /\ events' = events]_vars

\* C20 -- Malformed event ids are rejected before the admission step: a
\* join or leave whose eventId is not a valid identifier is answered 400
\* in its first step, with its transaction aborted and its session ended,
\* having issued no conditional update and no read of the event and
\* changed nothing; and only such a request gets that answer.
C20_InvalidIdRejectedFirst ==
  [][\A r \in Reqs :
       /\ ( /\ reqs[r].pc = "idle" /\ reqs'[r].op \in {"join", "leave"}
            /\ reqs'[r].id \in InvalidIds )
            => /\ reqs'[r].pc = "done"
               /\ reqs'[r].res = Res(400, "InvalidId")
               /\ reqs'[r].txn = "aborted" /\ reqs'[r].ended
               /\ reqs'[r].event = {} /\ ~reqs'[r].found
               /\ events' = events
       /\ (StepOf(r) /\ reqs'[r].res.message = "InvalidId")
            => reqs[r].pc = "idle" /\ reqs'[r].id \in InvalidIds
       /\ reqs[r].res # NoRes => ~StepOf(r)]_vars

\* With the event stored, a join and a leave with a malformed id were
\* both answered 400 InvalidId, and a join of the event was answered.
C20_Witness ==
  \E r, q, p \in Reqs :
    /\ reqs[r].op = "join" /\ reqs[r].res = Res(400, "InvalidId")
    /\ reqs[q].op = "leave" /\ reqs[q].res = Res(400, "InvalidId")
    /\ reqs[p].op = "join" /\ reqs[p].id \in EventIds /\ reqs[p].res.status = 200
    /\ FindById(reqs[p].id) # {}

\* C21 -- Membership is mutated only by join and leave: an event enters
\* the collection with no attendees; a step of updateEvent keeps every
\* stored event with its identifier, creator and attendees; and the
\* attendees of a stored event change only in the commit step of a join
\* or leave, its creator never.
C21_MembersOnlyByJoinLeave ==
  [][/\ \A e \in events' :
          (\A d \in events : d._id # e._id) => e.attendees = <<>>
     /\ \A r \in Reqs :
          (reqs'[r].op = "update" /\ StepOf(r))
            => /\ {d._id : d \in events'} = {d._id : d \in events}
               /\ \A d \in events : \E e \in events' :
                    /\ e._id = d._id /\ e.creator = d.creator
                    /\ e.attendees = d.attendees
     /\ \A d \in events : \A e \in events' :
          e._id = d._id
            => /\ e.creator = d.creator
               /\ e.attendees # d.attendees
                    => \E r \in Reqs :
                         /\ reqs[r].op \in {"join", "leave"}
                         /\ reqs[r].pc = "commit" /\ StepOf(r)]_vars

\* An updateEvent that carried a capacity and a date has written an event
\* that has attendees.
C21_Witness ==
  \E r \in Reqs : \E d \in FindById(reqs[r].id) :
    /\ reqs[r].op = "update" /\ reqs[r].res.status = 200
    /\ reqs[r].updateData.capacity # Absent
    /\ d.capacity = reqs[r].updateData.capacity
    /\ Len(d.attendees) > 0

\* A deleteEvent of event id has been answered with success.
Deleted(id) ==
  \E q \in Reqs :
    reqs[q].op = "delete" /\ reqs[q].id = id /\ reqs[q].res.status = 200

\* C22 -- Deletion cascades: once a deleteEvent of an event has completed,
\* the event is not stored and is in no user's my-RSVPs result, whatever
\* join was in flight during the delete; a join or leave of it that
\* arrives later is not applied, writes nothing and is answered 404
\* NotFound.
C22_DeletionCascades ==
  [][/\ \A id \in EventIds :
          Deleted(id)' =>
            /\ \A d \in events' : d._id # id
            /\ \A u \in Users : \A d \in GetMyRsvps(u)' : d._id # id
            /\ \A r \in Reqs : \A d \in reqs'[r].event : d._id # id
     /\ \A r \in Reqs :
          /\ ( /\ reqs[r].pc = "idle" /\ reqs'[r].op \in {"join", "leave"}
               /\ Deleted(reqs'[r].id) )
               => reqs'[r].pc = "diag" /\ events' = events
          /\ ( /\ reqs[r].op \in {"join", "leave"} /\ reqs[r].pc = "diag"
               /\ ~reqs[r].found /\ Deleted(reqs[r].id) /\ StepOf(r) )
               => reqs'[r].res = Res(404, "NotFound") /\ events' = events]_vars

\* A user joined an event, the owner's deleteEvent completed, and the
\* user's later leave was answered NotFound.
C22_Witness ==
  \E p, q, r \in Reqs :
    /\ p < q /\ q < r
    /\ reqs[p].op = "join" /\ reqs[p].res.message = "Joined"
    /\ reqs[q].op = "delete" /\ reqs[q].res.status = 200
    /\ reqs[r].op = "leave" /\ reqs[r].user = reqs[p].user
    /\ reqs[p].id = reqs[q].id /\ reqs[q].id = reqs[r].id
    /\ ~reqs[r].found /\ reqs[r].res.message = "NotFound"

\* C23 -- Owner-only mutation: a step of updateEvent or deleteEvent
\* changes the collection only for a caller who is the creator of the
\* stored event; an updateEvent or deleteEvent by any other caller on a
\* stored event is answered 403 at once and changes nothing.
C23_OwnerOnlyMutation ==
  [][\A r \in Reqs :
       /\ ( /\ reqs'[r].op \in {"update", "delete"} /\ StepOf(r)
            /\ events' # events )
            => \E d \in FindById(reqs'[r].id) : d.creator = reqs'[r].user
       /\ ( /\ reqs[r].pc = "idle" /\ reqs'[r].op \in {"update", "delete"}
            /\ \E d \in FindById(reqs'[r].id) : d.creator # reqs'[r].user )
            => /\ reqs'[r].pc = "done"
               /\ reqs'[r].res = Res(403, "NotAuthorized")
               /\ events' = events]_vars

\* An updateEvent and a deleteEvent by users other than the creator were
\* answered 403, and the event is stored with the capacity and date it
\* was created with.
C23_Witness ==
  \E r, q \in Reqs : \E d \in FindById(reqs[r].id) :
    /\ reqs[r].op = "update" /\ reqs[r].res.status = 403
    /\ reqs[r].user # d.creator
    /\ reqs[q].op = "delete" /\ reqs[q].res.status = 403
    /\ reqs[q].id = reqs[r].id /\ reqs[q].user # d.creator
    /\ \A p \in Reqs : reqs[p].res.status # 200

\* C24 -- Creators are prevented from RSVPing to their own event: the
\* creator of a stored event is never among its attendees, and no join by
\* the creator of a stored event is answered Joined.
C24_CreatorNeverJoins ==
  \A d \in events :
    /\ d.creator \notin Range(d.attendees)
    /\ \A r \in Joins :
         (reqs[r].id = d._id /\ reqs[r].user = d.creator)
           => reqs[r].res.message # "Joined"

\* C25 -- TransientConflict only after a concurrent change: a join is not
\* applied only when the event is absent, holds the caller or is full at
\* its conditional update; and it is answered TransientConflict only when
\* its diagnostic read finds the event with a free spot and without the
\* caller, and another operation on the event has taken effect: a leave,
\* a capacity edit, or the creation of the event after the update.
C25_TransientOnlyAfterChange ==
  [][\A r \in Reqs :
       /\ ( /\ reqs[r].pc = "idle" /\ reqs'[r].op = "join"
            /\ reqs'[r].pc = "diag" )
            => \A d \in FindById(reqs'[r].id) :
                 \/ reqs'[r].user \in Range(d.attendees)
                 \/ Len(d.attendees) >= d.capacity
       /\ (StepOf(r) /\ reqs'[r].res.message = "TransientConflict")
            => /\ reqs[r].op = "join" /\ reqs[r].pc = "diag"
               /\ \E d \in FindById(reqs[r].id) :
                    /\ reqs[r].user \notin Range(d.attendees)
                    /\ Len(d.attendees) < d.capacity
               /\ \/ ~reqs[r].found
                  \/ \E q \in Reqs \ {r} :
                       /\ reqs[q].id = reqs[r].id
                       /\ \/ reqs[q].res.message = "Left"
                          \/ /\ reqs[q].res.message = "Updated"
                             /\ reqs[q].updateData.capacity # Absent]_vars

\* A join that found the event was answered TransientConflict after a
\* leave by another user.
C25_Witness ==
  \E r \in Joins : \E q \in Reqs :
    /\ reqs[r].found /\ reqs[r].res.message = "TransientConflict"
    /\ reqs[q].op = "leave" /\ reqs[q].res.message = "Left"
    /\ reqs[q].id = reqs[r].id /\ reqs[q].user # reqs[r].user

\* C26 -- Exactly one response on every path: a join or leave whose
\* handler has returned, after whatever failure of its conditional update,
\* its commit, its diagnostic read or its abort, has sent a response.
C26_HandlerAlwaysResponds ==
  \A r \in Reqs :
    ( /\ reqs[r].op \in {"join", "leave"}
      /\ reqs[r].pc \notin {"idle", "commit", "diag", "catch"} )
      => reqs[r].res.status # 0

\* C27 -- Transaction lifecycle: the catch block of a join or leave, which
\* aborts the transaction and ends the session, runs only with the
\* transaction still active and the session not yet ended; and a handler
\* that has returned has committed or aborted its transaction and ended
\* its session.
C27_TransactionLifecycle ==
  [][\A r \in Reqs :
       (reqs[r].op \in {"join", "leave"} /\ StepOf(r))
         => /\ reqs[r].pc = "catch"
                 => reqs[r].txn = "active" /\ ~reqs[r].ended
            /\ reqs'[r].pc \notin {"commit", "diag", "catch"}
                 => reqs'[r].txn \in {"committed", "aborted"} /\ reqs'[r].ended]_vars

\* C28 -- updateEvent answers with success only if the event is stored
\* when the update is written: an update whose event was deleted after
\* its ownership read is answered NotFound.
C28_UpdatedOnlyIfStored ==
  [][\A r \in Reqs :
       (reqs[r].op = "update" /\ reqs[r].pc = "write" /\ StepOf(r))
         => /\ reqs'[r].res.status = 200 => FindById(reqs[r].id) # {}
            /\ FindById(reqs[r].id) = {} => reqs'[r].res.status = 404]_vars

\* C29 -- The client's capacity status agrees with the server's isFull on
\* every stored event: getCapacityStatus of its attendee count and
\* capacity is full exactly when the attendees are not fewer than the
\* capacity, and when it is not full the remaining spots it shows are
\* positive.
C29_CapacityStatusAgrees ==
  \A d \in events :
    LET info == GetCapacityStatus(Len(d.attendees), d.capacity) IN
      /\ info.status = "full" <=> Len(d.attendees) >= d.capacity
      /\ info.status # "full" => info.remaining > 0

\* C30 -- After logout() the user stays null and isAuthenticated false
\* until the next call of login() or register(), also when a profile
\* fetch sent before the logout resolves after it.
C30_LoggedOutStaysLoggedOut ==
  auth.loggedOut => auth.user = NoUser

====
